---- MODULE Spec2Model ----
(***************************************************************************)
(* The warehouse loaders of the batch analytics platform:                  *)
(*   src/warehouse/load.py               (fact loader: dim_date,           *)
(*                                        dim_channel, fact_transactions)  *)
(*   src/warehouse/load_dim_customer.py  (customer loader: dim_customer)   *)
(* Each behaviour is a sequence of invocations of one loader script on     *)
(* partitions of cleaned rows, against a transactional store that may      *)
(* fail at any statement.                                                  *)
(*                                                                         *)
(* Units: amount in cents, fee_percent in tenths of a percent,             *)
(* processing_time in hundredths of a second, revenue in 1e-5 currency     *)
(* units (amount_cents * fee_tenths), so that all arithmetic is integral.  *)
(***************************************************************************)
EXTENDS Integers, Sequences, FiniteSets, TLC

VARIABLES
    job,        \* which loader script the scheduler runs: "fact" | "customer"
    dburl,      \* os.environ.get("Neon_key") of the current process
    file,       \* the partition file of the process date: [exists, rows]
    pc,         \* position of the current invocation
    attempt,    \* load_to_neon's local `attempt` (number of failed attempts)
    engine,     \* load.py's local `engine is not None`
    db,         \* committed warehouse state (what any other session reads)
    tx,         \* the tables as seen inside the open transaction
    effects,    \* keys inserted / updated by the statements of the transaction
    events,     \* observable side effects of the invocation, in order
    db0,        \* history: db when the invocation started
    dbA,        \* history: db when the current attempt started
    failedAt,   \* history: the step at which the attempt just failed, or "none"
    raised,     \* exception that left the process, or "none"
    rerun,      \* history: this invocation re-loads the partition the previous
                \* invocation COMMITTED
    now,        \* logical clock of CURRENT_TIMESTAMP
    sched,      \* what the scheduler runs: "one_loader" (the same loader
                \* script again and again) | "daily_pipeline" (for a date, the
                \* fact loader and then the customer loader on the partition
                \* the dimension builder derived from the cleaned one)
    procDates,  \* daily pipeline: the date keys of the cleaned partition whose
                \* customer dimension the current customer-loader run loads
    custDates,  \* history: the date keys whose customer dimension has been
                \* COMMITTED since the last committed fact load of the date
    today,      \* the calendar day, as a date key (datetime.now / "today")
    disk,       \* data/raw and data/processed: the partition file at each
                \* <<date, file name>>
    lastRun,    \* history: the last run of a stage on the partition tree:
                \* its --date argument, the paths it read and wrote, the
                \* exception that ended it
    ing         \* the generator process (run_ingestion): position, attempt
                \* counter, log, and the state of transactions.csv

pipe == <<sched, procDates, custDates>>

stages == <<today, disk, lastRun, ing>>

vars == <<job, dburl, file, pc, attempt, engine, db, tx, effects, events,
          db0, dbA, failedAt, raised, rerun, now, sched, procDates, custDates,
          today, disk, lastRun, ing>>

----------------------------------------------------------------------------
(* Program constants *)

MAX_RETRIES == 3
RETRY_DELAY_SECONDS == 2

(* Bounds of the model *)
MaxRows == 2        \* rows in one partition file
MaxClock == 3       \* customer-loader invocations (CURRENT_TIMESTAMP values)

----------------------------------------------------------------------------
(* Environment: the connection string *)

Unset == "<unset>"          \* os.environ.get returns None
DbUrls == {Unset, "", "postgresql://neon"}

\* `if not DB_URL` : None and the empty string are both falsy
MissingDbUrlNever(u) == FALSE
MissingDbUrl(u) == u = Unset \/ u = ""

----------------------------------------------------------------------------
(* Transformer derivations that shape a cleaned row *)

derive_processing_bucket_inclusive(seconds) ==
    IF seconds <= 100 THEN "fast"
    ELSE IF seconds <= 300 THEN "medium"
    ELSE "slow"

derive_processing_bucket(seconds) ==
    IF seconds < 100 THEN "fast"
    ELSE IF seconds < 300 THEN "medium"
    ELSE "slow"

\* df["revenue"] = df["amount"] * (df["fee_percent"] / 100)
Revenue(amount, fee_percent) == amount * fee_percent

CleanRow(id, dk, ck, chk, name, fee, amt, st, pt) ==
    [transaction_id |-> id, date_key |-> dk, customer_key |-> ck,
     channel_key |-> chk, channel_name |-> name, fee_percent |-> fee,
     amount |-> amt, status |-> st, processing_time |-> pt,
     processing_delay_bucket |-> derive_processing_bucket(pt),
     revenue |-> Revenue(amt, fee)]

\* The cleaned rows the partitions of the model are made of: for each of two
\* transactions a base row and the rows that differ from it in one column
\* (T1: amount, and with it revenue; channel_name.  T2: customer_key; status).
CleanRows ==
    { CleanRow("T1", 20240105, 1, 1, "Credit Card", 25, 10000, "success", 50),
      CleanRow("T1", 20240105, 1, 1, "Credit Card", 25, 20000, "success", 50),
      CleanRow("T1", 20240105, 1, 1, "Card", 25, 10000, "success", 50),
      CleanRow("T2", 20240106, 1, 2, "Debit Card", 10, 10000, "failed", 350),
      CleanRow("T2", 20240106, 2, 2, "Debit Card", 10, 10000, "failed", 350),
      CleanRow("T2", 20240106, 1, 2, "Debit Card", 10, 10000, "success", 350) }

\* The rows of dim_customer.parquet the partitions of the model are made of.
CustomerRows ==
    { [customer_key |-> 1, customer_id |-> "CUST-100001",
       signup_date |-> 20230101, segment |-> seg] : seg \in {"Retail", "SMB"} }
    \cup
    { [customer_key |-> 2, customer_id |-> cid,
       signup_date |-> 20230202, segment |-> "Corporate"] :
        cid \in {"CUST-100002", "CUST-100003"} }

SeqsUpTo(S, n) == UNION { [1..k -> S] : k \in 0..n }

Absent == [exists |-> FALSE, rows |-> <<>>]
Partition(rows) == [exists |-> TRUE, rows |-> rows]

FactPartitions ==
    {Absent} \cup { Partition(r) : r \in SeqsUpTo(CleanRows, MaxRows) }

CustomerPartitions ==
    {Absent} \cup { Partition(r) : r \in SeqsUpTo(CustomerRows, MaxRows) }

Partitions(j) == IF j = "fact" THEN FactPartitions ELSE CustomerPartitions

----------------------------------------------------------------------------
(* Date dimension rows : pd.to_datetime(str(date_key), format='%Y%m%d') *)

YearOf(dk) == dk \div 10000
MonthOf(dk) == (dk \div 100) % 100
DayOf(dk) == dk % 100

IsLeap(y) == (y % 4 = 0 /\ y % 100 # 0) \/ y % 400 = 0

DaysInMonth(y, m) ==
    IF m = 2 THEN (IF IsLeap(y) THEN 29 ELSE 28)
    ELSE IF m \in {4, 6, 9, 11} THEN 30 ELSE 31

\* strptime raises ValueError for a string that is no calendar date
ValidDateKey(dk) ==
    /\ YearOf(dk) >= 1 /\ YearOf(dk) <= 9999
    /\ MonthOf(dk) \in 1..12
    /\ DayOf(dk) >= 1 /\ DayOf(dk) <= DaysInMonth(YearOf(dk), MonthOf(dk))

\* days since 1970-01-01 of a proleptic Gregorian date
DaysFromCivil(y, m, d) ==
    LET yy  == IF m <= 2 THEN y - 1 ELSE y
        era == yy \div 400
        yoe == yy - era * 400
        mp  == IF m > 2 THEN m - 3 ELSE m + 9
        doy == (153 * mp + 2) \div 5 + d - 1
        doe == yoe * 365 + yoe \div 4 - yoe \div 100 + doy
    IN  era * 146097 + doe - 719468

\* Series.dt.weekday : Monday = 0 ... Sunday = 6  (1970-01-01 was a Thursday)
Weekday(dk) == (DaysFromCivil(YearOf(dk), MonthOf(dk), DayOf(dk)) + 3) % 7

DateRow(dk) ==
    [date_key |-> dk,
     full_date |-> <<YearOf(dk), MonthOf(dk), DayOf(dk)>>,
     day |-> DayOf(dk),
     month |-> MonthOf(dk),
     quarter |-> (MonthOf(dk) - 1) \div 3 + 1,
     year |-> YearOf(dk),
     weekday_flag |-> IF Weekday(dk) < 5 THEN 1 ELSE 0]

----------------------------------------------------------------------------
(* DataFrame helpers *)

RECURSIVE Pick(_, _, _)
Pick(s, idx, i) ==
    IF i > Len(s) THEN <<>>
    ELSE (IF i \in idx THEN <<s[i]>> ELSE <<>>) \o Pick(s, idx, i + 1)

\* DataFrame.drop_duplicates(): keeps the first occurrence, in input order
DropDuplicates(s) ==
    Pick(s, {i \in 1..Len(s) : \A j \in 1..(i - 1) : s[j] # s[i]}, 1)

ChannelOf(r) ==
    [channel_key |-> r.channel_key, channel_name |-> r.channel_name,
     fee_percent |-> r.fee_percent]

FactOf(r) ==
    [transaction_id |-> r.transaction_id, date_key |-> r.date_key,
     customer_key |-> r.customer_key, channel_key |-> r.channel_key,
     amount |-> r.amount, status |-> r.status,
     processing_time |-> r.processing_time,
     processing_delay_bucket |-> r.processing_delay_bucket,
     revenue |-> r.revenue]

\* df[['date_key']].drop_duplicates()
DateKeysOf(rows) == DropDuplicates([i \in 1..Len(rows) |-> rows[i].date_key])

\* the derived columns of df_date
DateStaging(rows) ==
    [i \in 1..Len(DateKeysOf(rows)) |-> DateRow(DateKeysOf(rows)[i])]

\* df[['channel_key','channel_name','fee_percent']].drop_duplicates()
ChannelStaging(rows) ==
    DropDuplicates([i \in 1..Len(rows) |-> ChannelOf(rows[i])])

\* df[fact_cols]
FactStaging(rows) == [i \in 1..Len(rows) |-> FactOf(rows[i])]

\* df.drop_duplicates(subset=["customer_key"]): first row of each key
CustomerStaging(rows) ==
    Pick(rows,
         {i \in 1..Len(rows) :
            \A j \in 1..(i - 1) : rows[j].customer_key # rows[i].customer_key},
         1)

----------------------------------------------------------------------------
(* The calendar and the partition tree data/{raw,processed}/YYYY/MM/DD *)

\* the dates that have a partition directory in the model
PartitionDates == {20240105, 20240106}

\* the days on which the stages run
RunDays == {20240106, 20240107}
FirstRunDay == CHOOSE d \in RunDays : \A e \in RunDays : d <= e

\* datetime.now() - timedelta(days=1), as a date key
Yesterday(t) ==
    IF DayOf(t) > 1 THEN t - 1
    ELSE IF MonthOf(t) > 1
         THEN YearOf(t) * 10000 + (MonthOf(t) - 1) * 100
              + DaysInMonth(YearOf(t), MonthOf(t) - 1)
         ELSE (YearOf(t) - 1) * 10000 + 1231

FileNames ==
    {"transactions.csv", "cleaned_transactions.parquet", "dim_customer.parquet"}
Paths == PartitionDates \X FileNames
EmptyDisk == [p \in Paths |-> Absent]

\* the --date argument of a stage: <<>> when omitted, <<D>> when given
Args == {<<>>} \cup { <<d>> : d \in PartitionDates }

\* `if args.date: process_date = strptime(args.date) else: now() - 1 day`
ProcessDate(arg, t) == IF arg # <<>> THEN arg[1] ELSE Yesterday(t)

\* dim_customer.py parses no arguments: get_yesterday_partition(), always
BuilderDate(arg, t) == Yesterday(t)

NoRun ==
    [stage |-> "none", arg |-> <<>>, day |-> FirstRunDay, read |-> <<>>,
     wrote |-> <<>>, error |-> "none"]

----------------------------------------------------------------------------
(* The dimension builder, src/ingestion/dim_customer.py *)

SEGMENTS == <<"Retail", "Corporate", "SMB", "Enterprise">>

\* fake.date_between(start_date="-5y", end_date="today") with the generator
\* seeded by the key: the same draw from a window that ends on the day of
\* the run, so the date moves with that day.
SignupDate(customer_key, day) == day - 10005 + (customer_key - 1) * 101

\* The customer record of a key, built on `day`: random and Faker are
\* seeded with the key.
generate_customer_record(customer_key, day) ==
    [customer_key |-> customer_key,
     customer_id |-> "CUST-" \o ToString(100000 + customer_key),
     signup_date |-> SignupDate(customer_key, day),
     segment |-> SEGMENTS[((customer_key - 1) % 4) + 1]]

\* df[CUSTOMER_KEY_COLUMN].drop_duplicates()
CustomerKeysOf(rows) ==
    DropDuplicates([i \in 1..Len(rows) |-> rows[i].customer_key])

\* dim_customer.parquet as the dimension builder writes it next to the
\* cleaned partition it read
DimCustomerPartition(cleaned, day) ==
    Partition([i \in 1..Len(CustomerKeysOf(cleaned.rows)) |->
                 generate_customer_record(CustomerKeysOf(cleaned.rows)[i], day)])

----------------------------------------------------------------------------
(* The transformer, src/transformation/transform.py *)

\* a missing transaction_id as read_csv returns it
NullId == "<NA>"

CHANNEL_DIM ==
    [k \in 1..4 |->
        CASE k = 1 -> [channel_name |-> "Credit Card", fee_percent |-> 25]
          [] k = 2 -> [channel_name |-> "Debit Card", fee_percent |-> 10]
          [] k = 3 -> [channel_name |-> "UPI", fee_percent |-> 5]
          [] k = 4 -> [channel_name |-> "Net Banking", fee_percent |-> 15]]

RawRow(id, dk, ck, chk, amt, st, pt) ==
    [transaction_id |-> id, date_key |-> dk, customer_key |-> ck,
     channel_key |-> chk, amount |-> amt, status |-> st,
     processing_time |-> pt]

\* The raw rows the partitions given to the transformer are made of: valid
\* rows with processing times on and around the bucket thresholds, two rows
\* of one transaction_id, and rows that break one validation rule each.
RawRows ==
    { RawRow("T1", 20240105, 1, 1, 10000, "success", 50),
      RawRow("T1", 20240105, 1, 1, 20000, "success", 100),
      RawRow("T2", 20240105, 2, 2, 10000, "failed", 150),
      RawRow("T3", 20240105, 1, 3, 250, "success", 99),
      RawRow("T4", 20240105, 2, 4, 10000, "success", 300),
      RawRow("T5", 20240105, 1, 1, 10000, "failed", 299),
      RawRow("T6", 20240105, 1, 1, 0, "success", 350),
      RawRow("T7", 20240105, 1, 2, -500, "success", 50),
      RawRow("T8", 20240105, 2, 2, 10000, "pending", 50),
      RawRow(NullId, 20240105, 2, 1, 10000, "success", 50) }

RawPartitions == { Partition(r) : r \in SeqsUpTo(RawRows, MaxRows) }

\* 2. Validation Rules
PositiveAmountOrZero(amount) == amount >= 0
PositiveAmount(amount) == amount > 0
KnownStatus(status) == status \in {"success", "failed"}
NotNa(transaction_id) == transaction_id # NullId

\* steps 3 to 6 for the row at position sk of the validated frame
TransformedRow(r, sk) ==
    [transaction_id |-> r.transaction_id, date_key |-> r.date_key,
     customer_key |-> r.customer_key, channel_key |-> r.channel_key,
     amount |-> r.amount, status |-> r.status,
     processing_time |-> r.processing_time,
     transaction_sk |-> sk,
     channel_name |-> CHANNEL_DIM[r.channel_key].channel_name,
     fee_percent |-> CHANNEL_DIM[r.channel_key].fee_percent,
     processing_delay_bucket |-> derive_processing_bucket(r.processing_time),
     revenue |-> Revenue(r.amount, CHANNEL_DIM[r.channel_key].fee_percent)]

\* steps 1 and 2: df.drop_duplicates(), then the three filters
Validated(rows) ==
    SelectSeq(DropDuplicates(rows),
              LAMBDA r : /\ PositiveAmount(r.amount)
                         /\ KnownStatus(r.status)
                         /\ NotNa(r.transaction_id))

\* the rows of cleaned_transactions.parquet for the rows of transactions.csv
Transformed(rows) ==
    [sk \in 1..Len(Validated(rows)) |-> TransformedRow(Validated(rows)[sk], sk)]

----------------------------------------------------------------------------
(* The generator's batch, src/ingestion/ingest.py *)

RECORDS_PER_DAY == 500

\* f"{i:05d}"
Pad5(i) ==
    (IF i < 10 THEN "0000" ELSE IF i < 100 THEN "000"
     ELSE IF i < 1000 THEN "00" ELSE IF i < 10000 THEN "0" ELSE "")
    \o ToString(i)

\* f"T{process_date.strftime('%Y%m%d')}{i:05d}"
TransactionId(process_date, i) == "T" \o ToString(process_date) \o Pad5(i)

\* Record i of the batch generated after `draws` earlier batches of the
\* process.  The random module is seeded once, at import, so the values of a
\* record are a function of its place in the random stream; the functions
\* below stand for that stream.  customer_key is drawn from 1..2 instead of
\* 1..1000.
GeneratedRecord(process_date, i, draws) ==
    RawRow(TransactionId(process_date, i), process_date,
           1 + ((i + draws) % 2),
           1 + ((i + draws) % 4),
           1000 + ((3701 * i + 1117 * draws) % 99001),
           IF (i + draws) % 10 = 9 THEN "failed" ELSE "success",
           50 + ((131 * i + 71 * draws) % 451))

generate_synthetic_transactions(process_date, num_records, draws) ==
    [n \in 1..num_records |-> GeneratedRecord(process_date, n - 1, draws)]

----------------------------------------------------------------------------
(* The warehouse tables.  A table is the set of its rows; staging holds   *)
(* the names of the staging relations that exist.                          *)

EmptyTables ==
    [dim_date |-> {}, dim_channel |-> {}, dim_customer |-> {},
     fact_transactions |-> {}, staging |-> {}]

NoEffects ==
    [date     |-> [ins |-> {}, upd |-> {}],
     channel  |-> [ins |-> {}, upd |-> {}],
     fact     |-> [ins |-> {}, upd |-> {}],
     customer |-> [ins |-> {}, upd |-> {}]]

\* updated_at of a row the loader has never stamped (the column default)
DefaultUpdatedAt == 0

(* -- dim_date : ON CONFLICT (date_key) DO UPDATE SET ... (no WHERE) -- *)
DateKey(r) == r.date_key
DateDistinctIfChanged(old, new) == old # new

DateDistinct(old, new) == TRUE
DateAssigned(old, new) == new

(* -- dim_channel : ON CONFLICT (channel_key) DO UPDATE ... WHERE ... -- *)
ChannelKeyWithName(r) == <<r.channel_key, r.channel_name>>

ChannelKey(r) == r.channel_key
ChannelDistinctFeeOnly(old, new) == old.fee_percent # new.fee_percent

ChannelDistinct(old, new) ==
    \/ old.channel_name # new.channel_name
    \/ old.fee_percent # new.fee_percent
ChannelAssigned(old, new) ==
    [old EXCEPT !.channel_name = new.channel_name,
                !.fee_percent = new.fee_percent]

(* -- fact_transactions : ON CONFLICT (transaction_id) DO UPDATE ... -- *)
FactKeyWithStatus(r) == <<r.transaction_id, r.status>>

FactKey(r) == r.transaction_id
FactDistinctNoStatus(old, new) ==
    \/ old.amount # new.amount
    \/ old.revenue # new.revenue
    \/ old.processing_time # new.processing_time
    \/ old.processing_delay_bucket # new.processing_delay_bucket
FactDistinct(old, new) ==
    \/ old.amount # new.amount
    \/ old.status # new.status
    \/ old.revenue # new.revenue
    \/ old.processing_time # new.processing_time
    \/ old.processing_delay_bucket # new.processing_delay_bucket
FactAssignedAccumulating(old, new) ==
    [old EXCEPT !.date_key = new.date_key,
                !.customer_key = new.customer_key,
                !.channel_key = new.channel_key,
                !.amount = old.amount + new.amount,
                !.status = new.status,
                !.processing_time = new.processing_time,
                !.processing_delay_bucket = new.processing_delay_bucket,
                !.revenue = old.revenue + new.revenue]
FactAssigned(old, new) ==
    [old EXCEPT !.date_key = new.date_key,
                !.customer_key = new.customer_key,
                !.channel_key = new.channel_key,
                !.amount = new.amount,
                !.status = new.status,
                !.processing_time = new.processing_time,
                !.processing_delay_bucket = new.processing_delay_bucket,
                !.revenue = new.revenue]

(* -- dim_customer : ON CONFLICT (customer_key) DO UPDATE ... WHERE ... -- *)
CustomerKey(r) == r.customer_key
CustomerDistinctAlways(old, new) == TRUE

CustomerDistinct(old, new) ==
    \/ old.customer_id # new.customer_id
    \/ old.signup_date # new.signup_date
    \/ old.segment # new.segment
CustomerAssigned(old, new, ts) ==
    [old EXCEPT !.customer_id = new.customer_id,
                !.signup_date = new.signup_date,
                !.segment = new.segment,
                !.updated_at = ts]
\* INSERT INTO dim_customer (customer_key, customer_id, signup_date, segment)
CustomerInserted(new) ==
    [customer_key |-> new.customer_key, customer_id |-> new.customer_id,
     signup_date |-> new.signup_date, segment |-> new.segment,
     updated_at |-> DefaultUpdatedAt]

KeyOf(kind, r) ==
    CASE kind = "date"     -> DateKey(r)
      [] kind = "channel"  -> ChannelKey(r)
      [] kind = "fact"     -> FactKey(r)
      [] kind = "customer" -> CustomerKey(r)

Distinct(kind, old, new) ==
    CASE kind = "date"     -> DateDistinct(old, new)
      [] kind = "channel"  -> ChannelDistinct(old, new)
      [] kind = "fact"     -> FactDistinct(old, new)
      [] kind = "customer" -> CustomerDistinct(old, new)

Assigned(kind, old, new, ts) ==
    CASE kind = "date"     -> DateAssigned(old, new)
      [] kind = "channel"  -> ChannelAssigned(old, new)
      [] kind = "fact"     -> FactAssigned(old, new)
      [] kind = "customer" -> CustomerAssigned(old, new, ts)

Inserted(kind, new) ==
    IF kind = "customer" THEN CustomerInserted(new) ELSE new

(* INSERT ... SELECT ... FROM staging ON CONFLICT (key) DO UPDATE:         *)
(* the staged rows are proposed one after the other in the order they were *)
(* written.  A row whose key is not in the table is inserted; a row whose  *)
(* key conflicts with a row this same statement has inserted or updated    *)
(* raises a cardinality violation ("ON CONFLICT DO UPDATE command cannot   *)
(* affect row a second time"); otherwise the existing row is rewritten if  *)
(* the WHERE clause holds and left alone if not.                           *)
MergeOne(kind, st, s, ts) ==
    LET k    == KeyOf(kind, s)
        olds == {o \in st.rows : KeyOf(kind, o) = k}
    IN  IF olds = {}
        THEN [st EXCEPT !.rows = @ \cup {Inserted(kind, s)},
                        !.ins = @ \cup {k}]
        ELSE IF k \in st.ins \cup st.upd
        THEN [st EXCEPT !.err = TRUE]
        ELSE LET o == CHOOSE o \in olds : TRUE
             IN  IF Distinct(kind, o, s)
                 THEN [st EXCEPT
                         !.rows = (@ \ olds) \cup {Assigned(kind, o, s, ts)},
                         !.upd = @ \cup {k}]
                 ELSE st

RECURSIVE MergeRows(_, _, _, _)
MergeRows(kind, st, staged, ts) ==
    IF staged = <<>> \/ st.err THEN st
    ELSE MergeRows(kind, MergeOne(kind, st, Head(staged), ts), Tail(staged), ts)

Merge(kind, table, staged, ts) ==
    MergeRows(kind, [rows |-> table, ins |-> {}, upd |-> {}, err |-> FALSE],
              staged, ts)

----------------------------------------------------------------------------
(* Transactions : `with engine.begin() as conn` *)

\* the block raised: the context manager rolls the transaction back
RollbackKeepsWork(committed, working) == working
Rollback(committed, working) == committed

\* the block was left normally (or by `return`): the transaction commits;
\* a TEMP table declared ON COMMIT DROP goes away with it
CommitTxLost(committed, working) == committed
CommitTx(committed, working) ==
    [working EXCEPT !.staging = @ \ {"staging_dim_customer"}]

\* DataFrame.to_sql(name, conn, if_exists="replace") / CREATE TEMP TABLE
CreateStaging(tables, name) == [tables EXCEPT !.staging = @ \cup {name}]

\* DROP TABLE name
DropStagingNever(tables, name) == tables

DropStaging(tables, name) == [tables EXCEPT !.staging = @ \ {name}]

----------------------------------------------------------------------------
(* Observable side effects *)

Ev(name, n) == [ev |-> name, n |-> n]

\* `finally: if engine is not None: engine.dispose()`  (load.py only)
Finally(j, eng) ==
    IF j = "fact" /\ eng THEN <<Ev("dispose", 0)>> ELSE <<>>

\* The statements of one attempt, in program order
StepAfterFactFirst(j, step) ==
    IF j = "fact"
    THEN CASE step = "BEGIN"      -> "TX_FACT"
           [] step = "TX_FACT"    -> "TX_DATE"
           [] step = "TX_DATE"    -> "TX_CHANNEL"
           [] step = "TX_CHANNEL" -> "TX_COMMIT"
    ELSE CASE step = "BEGIN"       -> "TX_CUSTOMER"
           [] step = "TX_CUSTOMER" -> "TX_COMMIT"
StepAfter(j, step) ==
    IF j = "fact"
    THEN CASE step = "BEGIN"      -> "TX_DATE"
           [] step = "TX_DATE"    -> "TX_CHANNEL"
           [] step = "TX_CHANNEL" -> "TX_FACT"
           [] step = "TX_FACT"    -> "TX_COMMIT"
    ELSE CASE step = "BEGIN"       -> "TX_CUSTOMER"
           [] step = "TX_CUSTOMER" -> "TX_COMMIT"

Terminal == {"COMMITTED", "FATAL", "SKIPPED", "CONFIG_ERROR"}
InTransaction == {"TX_DATE", "TX_CHANNEL", "TX_FACT", "TX_CUSTOMER", "TX_COMMIT"}
Loading == {"BEGIN"} \cup InTransaction

----------------------------------------------------------------------------
InitProcess ==
    /\ dburl = Unset
    /\ file = Absent
    /\ pc = "IDLE"
    /\ attempt = 0
    /\ engine = FALSE
    /\ db = EmptyTables
    /\ tx = EmptyTables
    /\ effects = NoEffects
    /\ events = <<>>
    /\ db0 = EmptyTables
    /\ dbA = EmptyTables
    /\ failedAt = "none"
    /\ raised = "none"
    /\ rerun = FALSE
    /\ now = 0
    /\ procDates = {}
    /\ custDates = {}

\* the generator process before it is started
IngestionIdle ==
    [pc |-> "IDLE", date |-> <<>>, attempt |-> 0, draws |-> 0, events |-> <<>>,
     slept |-> 0, error |-> "none", raised |-> "none"]

InitStages ==
    /\ today = FirstRunDay
    /\ disk = EmptyDisk
    /\ lastRun = NoRun
    /\ ing = IngestionIdle

Init ==
    /\ job \in {"fact", "customer"}
    /\ sched = "one_loader"
    /\ InitProcess
    /\ InitStages

(* The scheduler starts the loader script for a process date; the process  *)
(* sees the environment's connection string.  The partition file of the    *)
(* date enters the state when the first attempt looks for it.              *)
Start(j, u, f, again) ==
    /\ j = "customer" => now < MaxClock
    /\ job' = j
    /\ pc' = "STARTUP"
    /\ dburl' = u
    /\ file' = f
    /\ attempt' = 0
    /\ engine' = FALSE
    /\ tx' = db
    /\ effects' = NoEffects
    /\ events' = <<>>
    /\ db0' = db
    /\ dbA' = db
    /\ failedAt' = "none"
    /\ raised' = "none"
    /\ rerun' = again
    /\ now' = IF j = "customer" THEN now + 1 ELSE now
    /\ UNCHANGED <<db, sched, custDates>>
    /\ UNCHANGED stages

\* a run for some process date
Invoke(u) ==
    /\ pc = "IDLE"
    /\ Start(job, u, Absent, FALSE)
    /\ UNCHANGED procDates

\* the same process date again, right after a run that COMMITTED, with the
\* partition file untouched
Rerun(u) ==
    /\ pc = "COMMITTED"
    /\ Start(job, u, file, TRUE)
    /\ UNCHANGED procDates

\* the date keys of the rows of a cleaned partition
DatesOf(f) == {f.rows[i].date_key : i \in 1..Len(f.rows)}

\* daily pipeline: after the fact load of a date, the customer loader runs
\* on the dim_customer.parquet the dimension builder wrote for that date
LoadCustomerDimension(u) ==
    /\ sched = "daily_pipeline"
    /\ job = "fact"
    /\ pc = "COMMITTED"
    /\ Start("customer", u, DimCustomerPartition(file, today), FALSE)
    /\ procDates' = DatesOf(file)

\* the process has ended; nothing of it remains but the warehouse
Exit ==
    /\ pc \in Terminal
    /\ pc' = "IDLE"
    /\ dburl' = Unset
    /\ file' = Absent
    /\ attempt' = 0
    /\ engine' = FALSE
    /\ tx' = db
    /\ effects' = NoEffects
    /\ events' = <<>>
    /\ db0' = db
    /\ dbA' = db
    /\ failedAt' = "none"
    /\ raised' = "none"
    /\ rerun' = FALSE
    /\ job' = IF sched = "daily_pipeline" THEN "fact" ELSE job
    /\ procDates' = {}
    /\ UNCHANGED <<db, now, sched, custDates>>
    /\ UNCHANGED stages

(* Module level: DB_URL = os.environ.get("Neon_key"); raise if missing;    *)
(* otherwise the CLI calls load_to_neon, which sets attempt = 0.           *)
ModuleInit ==
    /\ pc = "STARTUP"
    /\ IF MissingDbUrl(dburl)
       THEN /\ pc' = "CONFIG_ERROR"
            /\ raised' = "EnvironmentError"
       ELSE /\ pc' = "PENDING"
            /\ raised' = raised
    /\ UNCHANGED <<job, dburl, file, attempt, engine, db, tx, effects, events,
                   db0, dbA, failedAt, rerun, now>>
    /\ UNCHANGED pipe
    /\ UNCHANGED stages

\* `attempt += 1`
NextAttemptStuck(a) == a
NextAttempt(a) == a + 1

\* `if attempt < MAX_RETRIES:` sleep and go round the loop again
RetriesLeftAlways(a) == TRUE

RetriesLeftOneMore(a) == a <= MAX_RETRIES
RetriesLeft(a) == a < MAX_RETRIES

\* `if record_count == 0:`
IsEmptyBatchNever(rows) == FALSE
IsEmptyBatch(rows) == Len(rows) = 0

\* the bare `raise` at the end of the except block re-raises the exception
\* being handled
ReraisedSwallowed(exc) == "none"
Reraised(exc) == exc

(* `except Exception as e:` of one attempt that failed at `step`, after    *)
(* the side effects evs, with the transaction (if any) rolled back.        *)
ExceptBlock(step, exc, evs, eng) ==
    LET a == NextAttempt(attempt) IN
    /\ attempt' = a
    /\ failedAt' = step
    /\ db' = Rollback(db, tx)
    /\ tx' = Rollback(db, tx)
    /\ effects' = NoEffects
    /\ IF RetriesLeft(a)
       THEN /\ pc' = "SLEEPING"
            /\ events' = evs \o <<Ev("error", a)>>
            /\ raised' = "none"
            /\ engine' = eng
       ELSE /\ pc' = "FATAL"
            /\ events' = evs \o <<Ev("error", a), Ev("critical", MAX_RETRIES)>>
                             \o Finally(job, eng) \o <<Ev("raise", 0)>>
            /\ raised' = Reraised(exc)
            /\ engine' = FALSE

(* time.sleep(RETRY_DELAY_SECONDS) in the except block, then the finally   *)
(* block, then the next iteration of the while loop.                       *)
Sleep ==
    /\ pc = "SLEEPING"
    /\ events' = events \o <<Ev("sleep", RETRY_DELAY_SECONDS)>>
                        \o Finally(job, engine)
    /\ engine' = FALSE
    /\ pc' = "PENDING"
    /\ UNCHANGED <<job, dburl, file, attempt, db, tx, effects, db0, dbA,
                   failedAt, raised, rerun, now>>
    /\ UNCHANGED pipe
    /\ UNCHANGED stages

\* what an attempt can find at the partition path of the process date
OnDisk ==
    IF attempt > 0 \/ rerun \/ procDates # {} THEN {file} ELSE Partitions(job)

(* Top of the try block: start log line, locate and read the partition,    *)
(* return on an empty one, create the engine.  f is the partition file of  *)
(* the process date: what the first attempt finds on disk, and the same    *)
(* file for the attempts after it (no other stage runs meanwhile).         *)
BeginAttempt(f) ==
    /\ pc = "PENDING"
    /\ attempt < MAX_RETRIES
    /\ file' = f
    /\ dbA' = db
    /\ LET evs == events \o <<Ev("start", 0)>> IN
       IF ~f.exists
       THEN ExceptBlock("read", "FileNotFoundError", evs, FALSE)
       ELSE /\ IF IsEmptyBatch(f.rows)
               THEN /\ events' = evs \o <<Ev("read", 0), Ev("warning", 0)>>
                    /\ pc' = "SKIPPED"
                    /\ engine' = FALSE
               ELSE /\ events' = evs \o <<Ev("read", 0), Ev("engine", 0)>>
                    /\ pc' = "BEGIN"
                    /\ engine' = TRUE
            /\ failedAt' = "none"
            /\ UNCHANGED <<attempt, db, tx, effects, raised>>
    /\ UNCHANGED <<job, dburl, db0, rerun, now>>
    /\ UNCHANGED pipe
    /\ UNCHANGED stages

(* engine.begin(): connect and open the transaction *)
Begin ==
    /\ pc = "BEGIN"
    /\ tx' = db
    /\ effects' = NoEffects
    /\ pc' = StepAfter(job, pc)
    /\ UNCHANGED <<job, dburl, file, attempt, engine, db, events, db0, dbA,
                   failedAt, raised, rerun, now>>
    /\ UNCHANGED pipe
    /\ UNCHANGED stages

(* The store fails the statement the attempt is about to execute           *)
(* (connection drop, lock timeout, constraint violation, ...).             *)
StoreFails ==
    /\ pc \in Loading
    /\ ExceptBlock(pc, "OperationalError", events, engine)
    /\ UNCHANGED <<job, dburl, file, db0, dbA, rerun, now>>
    /\ UNCHANGED pipe
    /\ UNCHANGED stages

(* One staging-and-merge step of the transaction on table `tab`:           *)
(* to_sql(staging) ; INSERT ... ON CONFLICT ; [DROP TABLE staging]         *)
MergeStep(kind, tab, staged, stagingName, dropIt, evs, nextPc) ==
    LET m == Merge(kind, tx[tab], staged, now) IN
    IF m.err
    THEN ExceptBlock(pc, "CardinalityViolation", events, engine)
    ELSE /\ tx' = LET t == [CreateStaging(tx, stagingName) EXCEPT ![tab] = m.rows]
                  IN  IF dropIt THEN DropStaging(t, stagingName) ELSE t
         /\ effects' = [effects EXCEPT ![kind] = [ins |-> m.ins, upd |-> m.upd]]
         /\ events' = events \o evs
         /\ pc' = nextPc
         /\ UNCHANGED <<attempt, engine, db, failedAt, raised>>

\* 1. Load dim_date
MergeDate ==
    /\ pc = "TX_DATE"
    /\ IF \E i \in 1..Len(file.rows) : ~ValidDateKey(file.rows[i].date_key)
       THEN ExceptBlock(pc, "ValueError", events, engine)
       ELSE MergeStep("date", "dim_date", DateStaging(file.rows),
                      "tmp_dim_date", TRUE, <<>>, StepAfter(job, pc))
    /\ UNCHANGED <<job, dburl, file, db0, dbA, rerun, now>>
    /\ UNCHANGED pipe
    /\ UNCHANGED stages

\* 2. Load dim_channel
MergeChannel ==
    /\ pc = "TX_CHANNEL"
    /\ MergeStep("channel", "dim_channel", ChannelStaging(file.rows),
                 "tmp_dim_channel", TRUE, <<>>, StepAfter(job, pc))
    /\ UNCHANGED <<job, dburl, file, db0, dbA, rerun, now>>
    /\ UNCHANGED pipe
    /\ UNCHANGED stages

\* 3. Load fact_transactions
MergeFact ==
    /\ pc = "TX_FACT"
    /\ MergeStep("fact", "fact_transactions", FactStaging(file.rows),
                 "tmp_fact_transactions", TRUE, <<>>, StepAfter(job, pc))
    /\ UNCHANGED <<job, dburl, file, db0, dbA, rerun, now>>
    /\ UNCHANGED pipe
    /\ UNCHANGED stages

(* load_dim_customer.py: CREATE TEMP TABLE staging_dim_customer ... ON     *)
(* COMMIT DROP ; to_sql(append) ; INSERT ... ON CONFLICT ; then, still     *)
(* inside the with block, the success log line, print and `return`.        *)
MergeCustomer ==
    /\ pc = "TX_CUSTOMER"
    /\ MergeStep("customer", "dim_customer", CustomerStaging(file.rows),
                 "staging_dim_customer", FALSE, <<Ev("success", 0)>>,
                 StepAfter(job, pc))
    /\ UNCHANGED <<job, dburl, file, db0, dbA, rerun, now>>
    /\ UNCHANGED pipe
    /\ UNCHANGED stages

(* Leaving the with block commits.  load.py then logs success, prints,     *)
(* returns and disposes the engine in its finally block;                   *)
(* load_dim_customer.py has already logged and is returning.               *)
Commit ==
    /\ pc = "TX_COMMIT"
    /\ db' = CommitTx(db, tx)
    /\ tx' = CommitTx(db, tx)
    /\ events' = events \o <<Ev("commit", 0)>>
                 \o (IF job = "fact" THEN <<Ev("success", 0)>> ELSE <<>>)
                 \o Finally(job, engine)
    /\ engine' = IF job = "fact" THEN FALSE ELSE engine
    /\ pc' = "COMMITTED"
    /\ custDates' = IF job = "customer" THEN custDates \cup procDates
                     ELSE custDates \ DatesOf(file)
    /\ UNCHANGED <<job, dburl, file, attempt, effects, db0, dbA, failedAt,
                   raised, rerun, now, sched, procDates>>
    /\ UNCHANGED stages

Next ==
    \/ \E u \in DbUrls : Invoke(u)
    \/ \E u \in DbUrls : Rerun(u)
    \/ Exit
    \/ ModuleInit
    \/ \E f \in OnDisk : BeginAttempt(f)
    \/ Begin
    \/ MergeDate
    \/ MergeChannel
    \/ MergeFact
    \/ MergeCustomer
    \/ Commit
    \/ StoreFails
    \/ Sleep

Spec == Init /\ [][Next]_vars

\* The loaders as the daily pipeline runs them: the fact loader on a cleaned
\* partition, then the customer loader on the customer partition derived
\* from it; a date may be processed again with a regenerated partition.
InitPipeline ==
    /\ job = "fact"
    /\ sched = "daily_pipeline"
    /\ InitProcess
    /\ InitStages

NextPipeline ==
    \/ Next
    \/ \E u \in DbUrls : LoadCustomerDimension(u)

SpecPipeline == InitPipeline /\ [][NextPipeline]_vars

----------------------------------------------------------------------------
(* The stages upstream of the loaders, each run as one process on the      *)
(* partition tree.                                                         *)

loader == <<job, dburl, file, pc, attempt, engine, db, tx, effects, events,
            db0, dbA, failedAt, raised, rerun, now, sched, procDates,
            custDates>>

RawPath(d) == <<d, "transactions.csv">>
CleanedPath(d) == <<d, "cleaned_transactions.parquet">>
DimCustomerPath(d) == <<d, "dim_customer.parquet">>

StageRun(stage, arg, read, wrote, error) ==
    [stage |-> stage, arg |-> arg, day |-> today, read |-> read,
     wrote |-> wrote, error |-> error]

\* run_transformation: read transactions.csv of the process date, write
\* cleaned_transactions.parquet of the process date; any exception is
\* logged and re-raised
RunTransformer(arg) ==
    LET d == ProcessDate(arg, today) IN
    /\ IF disk[RawPath(d)].exists
       THEN /\ disk' = [disk EXCEPT ![CleanedPath(d)] =
                           Partition(Transformed(disk[RawPath(d)].rows))]
            /\ lastRun' = StageRun("transformer", arg, <<RawPath(d)>>,
                                   <<CleanedPath(d)>>, "none")
       ELSE /\ disk' = disk
            /\ lastRun' = StageRun("transformer", arg, <<RawPath(d)>>, <<>>,
                                   "FileNotFoundError")
    /\ UNCHANGED <<today, ing>>
    /\ UNCHANGED loader

\* The transformer on an arbitrary raw partition of yesterday or of a date
\* given with --date.
InitTransform ==
    /\ job = "fact"
    /\ sched = "stages"
    /\ InitProcess
    /\ today \in RunDays
    /\ \E d \in PartitionDates : \E f \in RawPartitions :
          disk = [EmptyDisk EXCEPT ![RawPath(d)] = f]
    /\ lastRun = NoRun
    /\ ing = IngestionIdle

NextTransform == \E arg \in Args : RunTransformer(arg)

SpecTransform == InitTransform /\ [][NextTransform]_vars

\* run_ingestion when nothing fails: transactions.csv of the process date is
\* (over)written with the batch of a fresh process.  The model keeps the
\* first MaxRows records of the batch.
RunGenerator(arg) ==
    LET d == ProcessDate(arg, today) IN
    /\ disk' = [disk EXCEPT ![RawPath(d)] =
                   Partition(generate_synthetic_transactions(d, MaxRows, 0))]
    /\ lastRun' = StageRun("generator", arg, <<>>, <<RawPath(d)>>, "none")
    /\ UNCHANGED <<today, ing>>
    /\ UNCHANGED loader

\* dim_customer.py main(): read cleaned_transactions.parquet, write
\* dim_customer.parquet in the same folder
RunDimensionBuilder(arg) ==
    LET d == BuilderDate(arg, today) IN
    /\ IF disk[CleanedPath(d)].exists
       THEN /\ disk' = [disk EXCEPT ![DimCustomerPath(d)] =
                           DimCustomerPartition(disk[CleanedPath(d)], today)]
            /\ lastRun' = StageRun("dimension_builder", arg, <<CleanedPath(d)>>,
                                   <<DimCustomerPath(d)>>, "none")
       ELSE /\ disk' = disk
            /\ lastRun' = StageRun("dimension_builder", arg, <<CleanedPath(d)>>,
                                   <<>>, "FileNotFoundError")
    /\ UNCHANGED <<today, ing>>
    /\ UNCHANGED loader

\* The path a loader reads: `run_date = strptime(args.date) or None`, then
\* `process_date = now() - 1 day` for None, then get_latest_parquet.
FindLoaderInput(stage, path, arg) ==
    /\ lastRun' = StageRun(stage, arg, <<path>>, <<>>,
                           IF disk[path].exists THEN "none"
                           ELSE "FileNotFoundError")
    /\ UNCHANGED <<today, disk, ing>>
    /\ UNCHANGED loader

FindFactPartition(arg) ==
    FindLoaderInput("fact_loader", CleanedPath(ProcessDate(arg, today)), arg)

FindCustomerPartition(arg) ==
    FindLoaderInput("customer_loader",
                    DimCustomerPath(ProcessDate(arg, today)), arg)

\* midnight
NextDay ==
    /\ today + 1 \in RunDays
    /\ today' = today + 1
    /\ UNCHANGED <<disk, lastRun, ing>>
    /\ UNCHANGED loader

InitUpstream ==
    /\ job = "fact"
    /\ sched = "stages"
    /\ InitProcess
    /\ InitStages

NextStages ==
    \/ \E arg \in Args : RunGenerator(arg)
    \/ \E arg \in Args : RunTransformer(arg)
    \/ \E arg \in Args : RunDimensionBuilder(arg)
    \/ \E arg \in Args : FindFactPartition(arg)
    \/ \E arg \in Args : FindCustomerPartition(arg)
    \/ NextDay

SpecStages == InitUpstream /\ [][NextStages]_vars

----------------------------------------------------------------------------
(* The generator's retry loop, run_ingestion of src/ingestion/ingest.py   *)

\* df.to_csv(output_file, index=False): the file is opened for writing, so
\* what it held is gone
save_transactions_append(df, old) == Partition(old.rows \o df)
save_transactions(df, old) == Partition(df)

\* rows on disk when to_csv fails part-way
PartialLengths == {0, RECORDS_PER_DAY \div 2}

\* where an attempt can raise
IngestSteps == {"generate", "mkdir", "to_csv"}

\* parse_args, process_date, `attempt = 0`
IngestStart(arg) ==
    /\ ing.pc = "IDLE"
    /\ ing' = [ing EXCEPT !.pc = "TRY", !.date = <<ProcessDate(arg, today)>>,
                          !.attempt = 0]
    /\ UNCHANGED <<today, disk, lastRun>>
    /\ UNCHANGED loader

\* one pass of the try block that reaches `return`
IngestSucceed ==
    /\ ing.pc = "TRY"
    /\ LET d == ing.date[1]
           df == generate_synthetic_transactions(d, RECORDS_PER_DAY, ing.draws)
       IN  disk' = [disk EXCEPT ![RawPath(d)] = save_transactions(df, @)]
    /\ ing' = [ing EXCEPT !.pc = "RETURNED", !.draws = @ + 1,
                          !.events = @ \o <<"start", "success">>]
    /\ UNCHANGED <<today, lastRun>>
    /\ UNCHANGED loader

\* one pass of the try block that raises at `step`, then the except block
IngestFail(step, n) ==
    /\ ing.pc = "TRY"
    /\ LET d == ing.date[1]
           df == generate_synthetic_transactions(d, RECORDS_PER_DAY, ing.draws)
       IN  disk' = IF step = "to_csv"
                   THEN [disk EXCEPT ![RawPath(d)] =
                            save_transactions(SubSeq(df, 1, n), @)]
                   ELSE disk
    /\ ing' = IF RetriesLeft(NextAttempt(ing.attempt))
              THEN [ing EXCEPT !.pc = "SLEEPING",
                               !.attempt = NextAttempt(@), !.draws = @ + 1,
                               !.events = @ \o <<"start", "error", "sleep">>,
                               !.slept = @ + RETRY_DELAY_SECONDS,
                               !.error = step]
              ELSE [ing EXCEPT !.pc = "RAISED",
                               !.attempt = NextAttempt(@), !.draws = @ + 1,
                               !.events = @ \o <<"start", "error", "critical">>,
                               !.error = step, !.raised = Reraised(step)]
    /\ UNCHANGED <<today, lastRun>>
    /\ UNCHANGED loader

\* time.sleep returns: back to `while attempt < MAX_RETRIES`
IngestWake ==
    /\ ing.pc = "SLEEPING"
    /\ ing' = [ing EXCEPT !.pc = "TRY"]
    /\ UNCHANGED <<today, disk, lastRun>>
    /\ UNCHANGED loader

\* The raw file of one date may be left from an earlier process: a complete
\* batch, or what a failed write left.
InitIngest ==
    /\ job = "fact"
    /\ sched = "stages"
    /\ InitProcess
    /\ today \in RunDays
    /\ \/ disk = EmptyDisk
       \/ \E d \in PartitionDates :
            \E n \in PartialLengths \cup {RECORDS_PER_DAY} :
                disk = [EmptyDisk EXCEPT ![RawPath(d)] =
                   Partition(SubSeq(generate_synthetic_transactions(
                                        d, RECORDS_PER_DAY, 0), 1, n))]
    /\ lastRun = NoRun
    /\ ing = IngestionIdle

NextIngest ==
    \/ \E arg \in Args : IngestStart(arg)
    \/ IngestSucceed
    \/ \E step \in IngestSteps, n \in PartialLengths : IngestFail(step, n)
    \/ IngestWake

SpecIngest == InitIngest /\ [][NextIngest]_vars

----------------------------------------------------------------------------
(* Reading the event trace *)

Positions(name) == {i \in DOMAIN events : events[i].ev = name}
Count(name) == Cardinality(Positions(name))
ErrorLines == SelectSeq(events, LAMBDA e : e.ev = "error")

TrackedColumns ==
    {"amount", "status", "processing_time", "processing_delay_bucket", "revenue"}

TrackedDiffer(old, new) == \E c \in TrackedColumns : old[c] # new[c]

HasDate(t, dk) == \E d \in t.dim_date : d.date_key = dk
HasChannel(t, ck) == \E c \in t.dim_channel : c.channel_key = ck

\* the tables after the statements of one fact load, applied once to t
OneFactLoad(t, rows) ==
    [t EXCEPT
       !.dim_date = Merge("date", @, DateStaging(rows), 0).rows,
       !.dim_channel = Merge("channel", @, ChannelStaging(rows), 0).rows,
       !.fact_transactions = Merge("fact", @, FactStaging(rows), 0).rows]

\* the tables after the statement of one customer load, applied once to t
OneCustomerLoad(t, rows, ts) ==
    [t EXCEPT !.dim_customer = Merge("customer", @, CustomerStaging(rows), ts).rows]

----------------------------------------------------------------------------
(* C1  Idempotence of the fact loader: when a run that COMMITTED is        *)
(* followed by a second run on the same partition and that run COMMITs     *)
(* too, the warehouse after the second run is the warehouse after the      *)
(* first: no dim_date, dim_channel or fact row is inserted, no dim_channel *)
(* or fact row is rewritten.                                               *)
C1_Idempotent ==
    (job = "fact" /\ rerun /\ pc = "COMMITTED") =>
        /\ db = db0
        /\ effects.date.ins = {}
        /\ effects.channel.ins = {} /\ effects.channel.upd = {}
        /\ effects.fact.ins = {} /\ effects.fact.upd = {}

C1_Witness ==
    /\ job = "fact" /\ rerun /\ pc = "COMMITTED"
    /\ Cardinality(db.fact_transactions) = 2
    /\ Len(file.rows) = 2

(* C2  Conditional update of facts: in a committed fact load a fact row    *)
(* that was in the warehouse is rewritten if and only if the batch holds a *)
(* row of its transaction_id that differs from it in amount, status,       *)
(* processing_time, processing_delay_bucket or revenue; a rewritten row    *)
(* takes the batch values, every other stored fact row is unchanged.       *)
C2_ConditionalUpdate ==
    (job = "fact" /\ pc = "COMMITTED") =>
        \A o \in db0.fact_transactions :
            LET staged  == FactStaging(file.rows)
                hits    == {i \in DOMAIN staged :
                              staged[i].transaction_id = o.transaction_id}
                changed == \E i \in hits : TrackedDiffer(o, staged[i])
            IN  /\ (o.transaction_id \in effects.fact.upd) <=> changed
                /\ changed =>
                     LET last == CHOOSE i \in hits : \A j \in hits : j <= i
                     IN  /\ staged[last] \in db.fact_transactions
                         /\ o \notin db.fact_transactions
                /\ ~changed => o \in db.fact_transactions

\* a re-load in which exactly one of two stored transactions has a changed
\* amount: that one is rewritten, its sibling is not
C2_Witness ==
    /\ job = "fact" /\ pc = "COMMITTED"
    /\ Cardinality(db0.fact_transactions) = 2
    /\ Cardinality(effects.fact.upd) = 1
    /\ \E o \in db0.fact_transactions : \E n \in db.fact_transactions :
          /\ o.transaction_id = n.transaction_id
          /\ o.amount # n.amount /\ o.revenue # n.revenue
    /\ \E o \in db0.fact_transactions :
          /\ o \in db.fact_transactions
          /\ \E i \in DOMAIN file.rows :
                file.rows[i].transaction_id = o.transaction_id

(* C3  Atomicity of one attempt: when the dim_date and dim_channel merges  *)
(* of an attempt have succeeded and its fact merge fails, the committed    *)
(* warehouse is what it was when the attempt started, and nothing of the   *)
(* transaction is left.                                                    *)
C3_Atomicity ==
    (job = "fact" /\ failedAt = "TX_FACT") => (db = dbA /\ tx = dbA)

\* the failed attempt had a date and a channel to insert
C3_Witness ==
    /\ job = "fact" /\ failedAt = "TX_FACT"
    /\ \E i \in DOMAIN file.rows :
          /\ ~HasDate(db, file.rows[i].date_key)
          /\ ~HasChannel(db, file.rows[i].channel_key)
    /\ db.fact_transactions # {}

(* C4  No partial success across retries, for both loaders: an invocation  *)
(* that ends FATAL leaves the committed warehouse as it was when the       *)
(* invocation started; one that ends COMMITTED leaves it as one            *)
(* application of the batch to that state, however many attempts failed.   *)
C4_NoPartialSuccess ==
    /\ pc = "FATAL" => db = db0
    /\ pc = "COMMITTED" =>
          db = IF job = "fact"
               THEN OneFactLoad(db0, file.rows)
               ELSE OneCustomerLoad(db0, file.rows, now)

C4_Witness ==
    /\ pc = "COMMITTED" /\ attempt = 2
    /\ db # db0 /\ db0 # EmptyTables
    /\ job = "customer"

(* C5  Retry until success: a fact load that COMMITs after N failed        *)
(* attempts has N < 3, has written N+1 start log lines and the failure log *)
(* lines numbered 1..N, and raises nothing.                                *)
C5_RetryUntilSuccess ==
    (job = "fact" /\ pc = "COMMITTED") =>
        /\ attempt < MAX_RETRIES
        /\ Count("start") = attempt + 1
        /\ Len(ErrorLines) = attempt
        /\ \A i \in DOMAIN ErrorLines : ErrorLines[i].n = i
        /\ Count("critical") = 0 /\ Count("raise") = 0 /\ raised = "none"
        /\ Count("success") = 1

C5_Witness ==
    job = "fact" /\ pc = "COMMITTED" /\ attempt = 2 /\ Count("sleep") = 2

(* C6  Retry exhaustion: no invocation starts more than MAX_RETRIES        *)
(* attempts or sleeps more than MAX_RETRIES - 1 times; one whose attempts  *)
(* all fail ends FATAL after exactly 3 attempts, with one sleep of         *)
(* RETRY_DELAY_SECONDS between consecutive attempts, none after the last,  *)
(* and the exception raised to the caller.                                 *)
C6_RetryExhaustion ==
    /\ Count("start") <= MAX_RETRIES
    /\ Count("sleep") <= MAX_RETRIES - 1
    /\ \A i \in Positions("sleep") : events[i].n = RETRY_DELAY_SECONDS
    /\ pc = "FATAL" =>
          /\ attempt = MAX_RETRIES
          /\ Count("start") = MAX_RETRIES
          /\ Count("sleep") = MAX_RETRIES - 1
          /\ \A i, j \in Positions("start") :
                i < j => \E k \in Positions("sleep") : i < k /\ k < j
          /\ \A k \in Positions("sleep") :
                \E i, j \in Positions("start") : i < k /\ k < j
          /\ events[Len(events)].ev = "raise"
          /\ raised # "none"

C6_Witness ==
    /\ job = "fact" /\ pc = "FATAL" /\ failedAt \in Loading
    /\ Count("engine") = MAX_RETRIES

(* C7  A missing input partition is fatal and not retried: once an attempt *)
(* has found the partition file absent, the invocation is FATAL with a     *)
(* FileNotFoundError after that single attempt, and has not slept.         *)
C7_MissingInputNotRetried ==
    (Count("start") >= 1 /\ ~file.exists) =>
        /\ pc = "FATAL"
        /\ raised = "FileNotFoundError"
        /\ Count("start") = 1
        /\ Count("sleep") = 0

(* C8  Empty batch is a skip, for both loaders: once an attempt has read a *)
(* partition with zero rows the invocation has returned normally on that   *)
(* first attempt: start line, read, warning, and nothing else -- no error  *)
(* line, sleep, engine or exception -- and the warehouse is unchanged.     *)
C8_EmptySkip ==
    (Count("start") >= 1 /\ file.exists /\ Len(file.rows) = 0) =>
        /\ pc = "SKIPPED"
        /\ events = <<Ev("start", 0), Ev("read", 0), Ev("warning", 0)>>
        /\ attempt = 0 /\ raised = "none" /\ ~engine
        /\ db = db0 /\ tx = db0

C8_Witness ==
    /\ pc = "SKIPPED" /\ job = "customer"
    /\ db.dim_customer # {}

(* C9  Missing connection string is a startup failure, for both loaders:   *)
(* a process whose Neon_key is unset (or empty) ends with an               *)
(* EnvironmentError before any attempt: nothing is logged or read, no      *)
(* engine is created, no sleep happens and the warehouse is not touched.   *)
C9_ConfigError ==
    (pc \notin {"IDLE", "STARTUP"} /\ dburl \in {Unset, ""}) =>
        /\ pc = "CONFIG_ERROR"
        /\ raised = "EnvironmentError"
        /\ events = <<>> /\ attempt = 0 /\ ~engine
        /\ db = db0 /\ tx = db0

C9_Witness ==
    /\ pc = "CONFIG_ERROR" /\ dburl = Unset
    /\ db.fact_transactions # {}

(* C10  Dimensions before facts: neither the committed warehouse nor the   *)
(* tables inside an open transaction ever hold a fact row without a        *)
(* dim_date row of its date_key and a dim_channel row of its channel_key;  *)
(* and once an attempt has merged the facts, the same transaction has      *)
(* already written the date row of every batch row and holds its channel.  *)
C10_DimensionsBeforeFacts ==
    /\ \A t \in {db, tx} : \A f \in t.fact_transactions :
          HasDate(t, f.date_key) /\ HasChannel(t, f.channel_key)
    /\ (job = "fact" /\ effects.fact.ins \cup effects.fact.upd # {}) =>
          \A i \in DOMAIN file.rows :
             /\ DateRow(file.rows[i].date_key) \in tx.dim_date
             /\ file.rows[i].date_key \in effects.date.ins \cup effects.date.upd
             /\ HasChannel(tx, file.rows[i].channel_key)

C10_Witness ==
    /\ job = "fact" /\ pc = "COMMITTED"
    /\ effects.fact.ins # {} /\ effects.date.ins # {} /\ effects.channel.ins # {}
    /\ db0.fact_transactions # {}

----------------------------------------------------------------------------
HasCustomer(t, ck) == \E c \in t.dim_customer : c.customer_key = ck

(* C11  Referential completeness: in every committed state of the         *)
(* warehouse every fact row has a dim_date row for its date_key and a     *)
(* dim_channel row for its channel_key, and, once the customer dimension  *)
(* of the fact's date has been loaded, a dim_customer row for its         *)
(* customer_key.                                                          *)
C11_ReferentialCompleteness ==
    \A f \in db.fact_transactions :
        /\ HasDate(db, f.date_key)
        /\ HasChannel(db, f.channel_key)
        /\ f.date_key \in custDates => HasCustomer(db, f.customer_key)

\* the customer row r is in the table t with the attributes of r
CustomerApplied(t, r) ==
    \E c \in t.dim_customer :
        c.customer_key = r.customer_key /\ ~CustomerDistinct(c, r)

(* C12  One transaction per day's load, customer dimension included: with *)
(* the date's customer partition on disk, the commit that makes the facts *)
(* of the date visible makes its customer rows visible too; no committed  *)
(* state has the facts of the date without its customer rows.             *)
C12_CustomersInFactTransaction ==
    (sched = "daily_pipeline" /\ job = "fact" /\ pc = "COMMITTED") =>
        \A i \in DOMAIN DimCustomerPartition(file, today).rows :
            CustomerApplied(db, DimCustomerPartition(file, today).rows[i])

\* The positions of the batch rows that repeat the key of an earlier row with
\* other values and are the last row of their key.
LastOfKey(keys, i) == \A j \in (i + 1)..Len(keys) : keys[j] # keys[i]

FactDuplicates(rows) ==
    {i \in 1..Len(rows) :
        /\ LastOfKey([n \in 1..Len(rows) |-> rows[n].transaction_id], i)
        /\ \E j \in 1..(i - 1) :
              /\ rows[j].transaction_id = rows[i].transaction_id
              /\ FactOf(rows[j]) # FactOf(rows[i])}

ChannelDuplicates(rows) ==
    {i \in 1..Len(rows) :
        /\ LastOfKey([n \in 1..Len(rows) |-> rows[n].channel_key], i)
        /\ \E j \in 1..(i - 1) :
              /\ rows[j].channel_key = rows[i].channel_key
              /\ ChannelOf(rows[j]) # ChannelOf(rows[i])}

CustomerDuplicates(rows) ==
    {i \in 1..Len(rows) :
        /\ LastOfKey([n \in 1..Len(rows) |-> rows[n].customer_key], i)
        /\ \E j \in 1..(i - 1) :
              /\ rows[j].customer_key = rows[i].customer_key
              /\ rows[j] # rows[i]}

(* C13  Duplicate keys within one batch: a batch that repeats a key with  *)
(* different attribute values is loaded all the same (the repeated key    *)
(* does not make the load fail), and after the commit the stored row of   *)
(* the key holds the values of the last row of that key in input order.   *)
C13_LastDuplicateWins ==
    /\ (job = "fact" /\ pc = "COMMITTED") =>
          /\ \A i \in FactDuplicates(file.rows) :
                FactOf(file.rows[i]) \in db.fact_transactions
          /\ \A i \in ChannelDuplicates(file.rows) :
                ChannelOf(file.rows[i]) \in db.dim_channel
    /\ (job = "customer" /\ pc = "COMMITTED") =>
          \A i \in CustomerDuplicates(file.rows) :
                CustomerApplied(db, file.rows[i])
    /\ raised # "CardinalityViolation"

----------------------------------------------------------------------------
\* the states of the load state machine, read off the position of the loader
Phase(p) ==
    CASE p = "PENDING" -> "PENDING"
      [] p \in Loading -> "LOADING"
      [] p = "SLEEPING" -> "FAILED_ATTEMPT"
      [] p = "COMMITTED" -> "COMMITTED"
      [] p = "FATAL" -> "FATAL"
      [] p = "SKIPPED" -> "SKIPPED"
      [] OTHER -> "OUTSIDE"

\* An attempt begins with the read of the partition, so an attempt whose read
\* fails goes from PENDING through LOADING to FAILED_ATTEMPT or FATAL in the
\* one step that runs the except block.
Edges ==
    { <<"OUTSIDE", "OUTSIDE">>, <<"OUTSIDE", "PENDING">>,
      <<"PENDING", "LOADING">>, <<"PENDING", "SKIPPED">>,
      <<"PENDING", "FAILED_ATTEMPT">>, <<"PENDING", "FATAL">>,
      <<"LOADING", "LOADING">>, <<"LOADING", "COMMITTED">>,
      <<"LOADING", "FAILED_ATTEMPT">>, <<"LOADING", "FATAL">>,
      <<"FAILED_ATTEMPT", "PENDING">>,
      <<"COMMITTED", "OUTSIDE">>, <<"FATAL", "OUTSIDE">>,
      <<"SKIPPED", "OUTSIDE">> }

Running == pc \notin Terminal \cup {"IDLE"}

\* a measure of the work left in the invocation: the attempts left first,
\* then the steps left in the attempt
StepsLeft(p) ==
    CASE p = "STARTUP" -> 10
      [] p = "SLEEPING" -> 9
      [] p = "PENDING" -> 8
      [] p = "BEGIN" -> 7
      [] p = "TX_DATE" -> 6
      [] p = "TX_CHANNEL" -> 5
      [] p \in {"TX_FACT", "TX_CUSTOMER"} -> 4
      [] p = "TX_COMMIT" -> 3
      [] OTHER -> 0

Rank(p, a) == IF p \in Terminal THEN 0 ELSE (MAX_RETRIES + 1 - a) * 10 + StepsLeft(p)

\* At the points where the loader decides how to go on (start-up, the head
\* of the retry loop, the start of the transaction, its commit, the end of a
\* failed attempt) a step is enabled; the merge statements in between have
\* no condition but their position.
CanStep ==
    /\ pc = "STARTUP" => ENABLED ModuleInit
    /\ pc = "PENDING" => ENABLED (\E f \in OnDisk : BeginAttempt(f))
    /\ pc = "BEGIN" => ENABLED Begin
    /\ pc = "TX_COMMIT" => ENABLED Commit
    /\ pc = "SLEEPING" => ENABLED Sleep

(* C14  The load state machine terminates: an invocation moves only along *)
(* PENDING -> LOADING -> COMMITTED and LOADING -> FAILED_ATTEMPT ->        *)
(* PENDING, the latter at most twice; it starts at most 3 attempts; while  *)
(* it has not reached COMMITTED, the empty skip or FATAL it can take a     *)
(* step, and every step brings it closer to one of them; once it is there  *)
(* the invocation starts no attempt, writes nothing to the warehouse and   *)
(* does not sleep.                                                         *)
C14_LoadTerminates ==
    /\ [](/\ Count("start") <= MAX_RETRIES
          /\ Count("sleep") <= MAX_RETRIES - 1
          /\ attempt <= MAX_RETRIES
          /\ CanStep)
    /\ [][/\ <<Phase(pc), Phase(pc')>> \in Edges
          /\ Running => Rank(pc', attempt') < Rank(pc, attempt)
          /\ pc \in Terminal =>
                /\ pc' \in {"IDLE", "STARTUP"}
                /\ db' = db
                /\ Len(events') <= 0]_vars

C14_Witness ==
    job = "customer" /\ pc = "COMMITTED" /\ Count("start") = MAX_RETRIES

----------------------------------------------------------------------------
\* the number of events `name` logged before position k of the trace
CountBefore(name, k) == Cardinality({i \in Positions(name) : i < k})

(* C15  Connection lifetime: an attempt creates at most one engine of its  *)
(* own; whenever the loader goes to sleep before the next attempt every    *)
(* engine created so far has been disposed, and when the invocation has    *)
(* ended every engine it created has been disposed.                        *)
C15_EngineDisposed ==
    /\ Count("engine") <= Count("start")
    /\ \A k \in Positions("sleep") :
          CountBefore("dispose", k) = CountBefore("engine", k)
    /\ pc \in Terminal => Count("dispose") = Count("engine")

----------------------------------------------------------------------------
\* The calendar rows of the two days of the model, written down from the
\* calendar: 2024-01-05 was a Friday, 2024-01-06 a Saturday.
CalendarRow(dk) ==
    [date_key |-> dk,
     full_date |-> <<2024, 1, IF dk = 20240105 THEN 5 ELSE 6>>,
     day |-> IF dk = 20240105 THEN 5 ELSE 6,
     month |-> 1, quarter |-> 1, year |-> 2024,
     weekday_flag |-> IF dk = 20240105 THEN 1 ELSE 0]

(* C16  The date dimension is upserted unconditionally: after a committed *)
(* fact load dim_date holds, for every date_key of the batch, exactly the *)
(* row derived from the key (weekday_flag 1 from Monday to Friday), the    *)
(* row of a key that was stored before is rewritten whatever it held, and  *)
(* the rows of other keys are as they were.                                *)
C16_DateUpsertUnconditional ==
    (job = "fact" /\ pc = "COMMITTED") =>
        LET keys   == DatesOf(file)
            stored == {d.date_key : d \in db0.dim_date}
        IN  /\ \A dk \in keys :
                 {d \in db.dim_date : d.date_key = dk} = {CalendarRow(dk)}
            /\ effects.date.upd = keys \cap stored
            /\ effects.date.ins = keys \ stored
            /\ {d \in db.dim_date : d.date_key \notin keys}
                 = {d \in db0.dim_date : d.date_key \notin keys}

\* a batch of a stored date and a new one
C16_Witness ==
    /\ job = "fact" /\ pc = "COMMITTED"
    /\ effects.date.upd = {20240105}
    /\ effects.date.ins = {20240106}

----------------------------------------------------------------------------
(* C17  The channel dimension is upserted conditionally: in a committed   *)
(* fact load a dim_channel row is written if and only if its channel_key  *)
(* is new, or a batch row of the key has another channel_name or          *)
(* fee_percent than the stored row; a stored row whose batch values are    *)
(* the same, and every row whose key is not in the batch, is untouched.    *)
C17_ChannelUpsertConditional ==
    (job = "fact" /\ pc = "COMMITTED") =>
        LET staged == ChannelStaging(file.rows)
            stored == {c.channel_key : c \in db0.dim_channel}
            Hits(k) == {i \in DOMAIN staged : staged[i].channel_key = k}
        IN  /\ \A o \in db0.dim_channel :
                 LET hits    == Hits(o.channel_key)
                     changed == \E i \in hits :
                                   \/ staged[i].channel_name # o.channel_name
                                   \/ staged[i].fee_percent # o.fee_percent
                 IN  /\ (o.channel_key \in effects.channel.upd) <=> changed
                     /\ changed =>
                          LET last == CHOOSE i \in hits : \A j \in hits : j <= i
                          IN  /\ staged[last] \in db.dim_channel
                              /\ o \notin db.dim_channel
                     /\ ~changed => o \in db.dim_channel
            /\ effects.channel.ins =
                 {staged[i].channel_key : i \in DOMAIN staged} \ stored
            /\ \A i \in DOMAIN staged :
                 staged[i].channel_key \notin stored => staged[i] \in db.dim_channel
            /\ Cardinality(db.dim_channel) =
                 Cardinality(db0.dim_channel) + Cardinality(effects.channel.ins)

\* both channels stored; the batch renames channel 1 and repeats channel 2
C17_Witness ==
    /\ job = "fact" /\ pc = "COMMITTED"
    /\ Cardinality(db0.dim_channel) = 2
    /\ effects.channel.upd = {1}
    /\ \E i \in DOMAIN file.rows : file.rows[i].channel_key = 2
    /\ \E c \in db.dim_channel : c.channel_key = 1 /\ c.channel_name = "Card"

----------------------------------------------------------------------------
(* C18  The customer audit timestamp moves only on change: in a committed *)
(* customer load the updated_at of a stored row is set to the timestamp of *)
(* the load if and only if customer_id, signup_date or segment of the      *)
(* staged row of its key differs from the stored one; otherwise the row,   *)
(* updated_at included, is as it was; loading the same partition again     *)
(* changes nothing.                                                        *)
C18_UpdatedAtOnlyOnChange ==
    (job = "customer" /\ pc = "COMMITTED") =>
        /\ \A o \in db0.dim_customer :
             LET rows    == file.rows
                 first   == {i \in DOMAIN rows :
                               /\ rows[i].customer_key = o.customer_key
                               /\ \A j \in 1..(i - 1) :
                                     rows[j].customer_key # o.customer_key}
                 changed == \E i \in first :
                               \/ rows[i].customer_id # o.customer_id
                               \/ rows[i].signup_date # o.signup_date
                               \/ rows[i].segment # o.segment
             IN  /\ changed =>
                      /\ o \notin db.dim_customer
                      /\ \E n \in db.dim_customer : \E i \in first :
                            /\ n.customer_key = o.customer_key
                            /\ n.customer_id = rows[i].customer_id
                            /\ n.signup_date = rows[i].signup_date
                            /\ n.segment = rows[i].segment
                            /\ n.updated_at = now
                            /\ n.updated_at > o.updated_at
                 /\ ~changed => o \in db.dim_customer
                 /\ (o.customer_key \in effects.customer.upd) <=> changed
        /\ rerun => db = db0

\* two customers stored, one of them stamped by an earlier load; the batch
\* changes one and repeats the other
C18_Witness ==
    /\ job = "customer" /\ pc = "COMMITTED"
    /\ Cardinality(db0.dim_customer) = 2
    /\ Cardinality(effects.customer.upd) = 1
    /\ Len(file.rows) = 2
    /\ \E n \in db.dim_customer : n.updated_at = now
    /\ \E o \in db0.dim_customer :
          o \in db.dim_customer /\ o.updated_at > DefaultUpdatedAt

----------------------------------------------------------------------------
TransactionIds(facts) == {f.transaction_id : f \in facts}

(* C19  Row-count effect of a fact load: a committed fact load raises the *)
(* number of rows of fact_transactions by exactly the number of distinct   *)
(* transaction_ids of the batch that were not stored before, and removes   *)
(* no transaction.                                                         *)
C19_RowCountEffect ==
    (job = "fact" /\ pc = "COMMITTED") =>
        LET batch  == {file.rows[i].transaction_id : i \in DOMAIN file.rows}
            stored == TransactionIds(db0.fact_transactions)
        IN  /\ Cardinality(db.fact_transactions) =
                 Cardinality(db0.fact_transactions) + Cardinality(batch \ stored)
            /\ stored \subseteq TransactionIds(db.fact_transactions)
            /\ TransactionIds(db.fact_transactions) = stored \cup batch

\* one stored transaction; the batch brings a new one and changes the status
\* of the stored one: one row more
C19_Witness ==
    /\ job = "fact" /\ pc = "COMMITTED"
    /\ Cardinality(db0.fact_transactions) = 1
    /\ Cardinality(db.fact_transactions) = 2
    /\ Len(file.rows) = 2
    /\ \E o \in db0.fact_transactions : \E n \in db.fact_transactions :
          n.transaction_id = o.transaction_id /\ n.status # o.status

----------------------------------------------------------------------------
(* C20  Key uniqueness: in every committed state of the warehouse each of *)
(* dim_date, dim_channel, dim_customer and fact_transactions holds at most *)
(* one row per date_key, channel_key, customer_key and transaction_id,     *)
(* however often and with whatever values a key has been loaded.           *)
C20_KeyUniqueness ==
    /\ \A a, b \in db.dim_date : a.date_key = b.date_key => a = b
    /\ \A a, b \in db.dim_channel : a.channel_key = b.channel_key => a = b
    /\ \A a, b \in db.dim_customer : a.customer_key = b.customer_key => a = b
    /\ \A a, b \in db.fact_transactions :
          a.transaction_id = b.transaction_id => a = b

\* both transactions were stored and have been loaded again with other values
C20_Witness ==
    /\ job = "fact" /\ pc = "COMMITTED"
    /\ Cardinality(effects.fact.upd) = 2
    /\ Cardinality(db.fact_transactions) = 2
    /\ Cardinality(db.dim_channel) = 2

----------------------------------------------------------------------------
(* C21  Staging relations are transient: the batch is staged inside the   *)
(* transaction that merges it, no committed state of the warehouse holds  *)
(* a staging relation, and when an invocation has ended (COMMITTED or     *)
(* FATAL, wherever its attempts failed) none is left in its session.      *)
C21_StagingTransient ==
    /\ db.staging = {}
    /\ pc \in Terminal => tx.staging = {}
    /\ (job = "customer" /\ pc = "TX_COMMIT") =>
          tx.staging = {"staging_dim_customer"}

\* the customer loader gave up after an attempt that failed with its batch
\* staged and merged, before the commit
C21_Witness ==
    /\ job = "customer" /\ pc = "FATAL" /\ failedAt = "TX_COMMIT"
    /\ Len(file.rows) > 0

----------------------------------------------------------------------------
\* the exceptions an attempt can fail with at the step where it failed
RaisedAt(step) ==
    IF step = "read" THEN {"FileNotFoundError"}
    ELSE {"OperationalError", "CardinalityViolation", "ValueError"}

(* C22  Failure reporting: the k-th failed attempt of an invocation writes *)
(* one error line carrying the number k, so the numbers are 1, 2, 3 in     *)
(* order without gap or repeat; when the attempts are exhausted a critical *)
(* line follows the last error line and the exception of the last attempt  *)
(* is raised to the caller; no critical line is written otherwise.         *)
C22_FailureReporting ==
    /\ Len(ErrorLines) = attempt
    /\ \A i \in DOMAIN ErrorLines : ErrorLines[i].n = i
    /\ Count("start") \in {attempt, attempt + 1}
    /\ pc = "FATAL" =>
          /\ Len(ErrorLines) = MAX_RETRIES
          /\ Count("critical") = 1 /\ Count("raise") = 1
          /\ \A c \in Positions("critical") :
                /\ events[c - 1] = Ev("error", MAX_RETRIES)
                /\ \A r \in Positions("raise") : c < r /\ r = Len(events)
          /\ raised \in RaisedAt(failedAt)
    /\ pc # "FATAL" => Count("critical") = 0 /\ Count("raise") = 0

C22_Witness ==
    /\ job = "fact" /\ pc = "FATAL" /\ raised = "CardinalityViolation"
    /\ Len(ErrorLines) = MAX_RETRIES

----------------------------------------------------------------------------
(* C28  The warehouse mirrors the batch after a load: after a committed   *)
(* fact load the stored row of every transaction_id of the batch equals   *)
(* the batch row of that id in every column, also when the batch row      *)
(* differs from the row stored before only in date_key, customer_key or   *)
(* channel_key.                                                           *)
C28_WarehouseMirrorsBatch ==
    (job = "fact" /\ pc = "COMMITTED") =>
        \A i \in DOMAIN file.rows :
            \A f \in db.fact_transactions :
                f.transaction_id = file.rows[i].transaction_id =>
                    \E j \in DOMAIN file.rows : f = FactOf(file.rows[j])

----------------------------------------------------------------------------
(* C29  Success is reported only after commit: a success line is written  *)
(* only when the transaction of the attempt has committed; no invocation   *)
(* writes a success line and, after it, an error or critical line, and an  *)
(* invocation that ends FATAL has written no success line.                 *)
C29_SuccessAfterCommit ==
    /\ \A s \in Positions("success") :
          /\ \E c \in Positions("commit") : c < s
          /\ \A e \in Positions("error") \cup Positions("critical") : e < s
    /\ pc = "FATAL" => Count("success") = 0

----------------------------------------------------------------------------
\* the cleaned partition files on disk
CleanedFiles == {disk[CleanedPath(d)] : d \in PartitionDates}

(* C23  Bucket derivation: derive_processing_bucket gives fast below 1 s, *)
(* medium from 1 s to below 3 s and slow from 3 s on (0.5, 1.5 and 3.5 s  *)
(* give fast, medium and slow, the boundaries 1 s and 3 s medium and      *)
(* slow), and every row of a cleaned partition carries the bucket of its  *)
(* processing_time.  Times are in hundredths of a second.                 *)
C23_BucketDerivation ==
    /\ derive_processing_bucket(50) = "fast"
    /\ derive_processing_bucket(150) = "medium"
    /\ derive_processing_bucket(350) = "slow"
    /\ derive_processing_bucket(100) = "medium"
    /\ derive_processing_bucket(300) = "slow"
    /\ \A t \in 0..500 :
          derive_processing_bucket(t) =
             CASE t <= 99 -> "fast"
               [] t >= 100 /\ t <= 299 -> "medium"
               [] t >= 300 -> "slow"
    /\ \A f \in CleanedFiles : \A i \in DOMAIN f.rows :
          LET t == f.rows[i].processing_time
              b == f.rows[i].processing_delay_bucket
          IN  /\ b = "fast" <=> t <= 99
              /\ b = "medium" <=> (t >= 100 /\ t <= 299)
              /\ b = "slow" <=> t >= 300

\* a cleaned partition with a row on each threshold
C23_Witness ==
    /\ lastRun.stage = "transformer"
    /\ \E f \in CleanedFiles :
          /\ Len(f.rows) = 2
          /\ {f.rows[i].processing_time : i \in DOMAIN f.rows} = {100, 300}

----------------------------------------------------------------------------
\* the columns of a cleaned row that come from the raw file
RawColumns(c) ==
    RawRow(c.transaction_id, c.date_key, c.customer_key, c.channel_key,
           c.amount, c.status, c.processing_time)

(* C24  Transformer validation: every row of a cleaned partition has      *)
(* amount > 0, status success or failed and a transaction_id; it comes    *)
(* from a row of the raw partition; and every raw row with these three     *)
(* properties is in the cleaned partition, once for each distinct raw row. *)
C24_TransformerValidation ==
    \A d \in PartitionDates :
        disk[CleanedPath(d)].exists =>
            LET raw     == disk[RawPath(d)].rows
                cleaned == disk[CleanedPath(d)].rows
            IN  /\ \A i \in DOMAIN cleaned :
                      /\ cleaned[i].amount > 0
                      /\ cleaned[i].status \in {"success", "failed"}
                      /\ cleaned[i].transaction_id # NullId
                      /\ \E j \in DOMAIN raw : raw[j] = RawColumns(cleaned[i])
                /\ \A j \in DOMAIN raw :
                      (/\ raw[j].amount > 0
                       /\ raw[j].status \in {"success", "failed"}
                       /\ raw[j].transaction_id # NullId)
                      => Cardinality({i \in DOMAIN cleaned :
                                        RawColumns(cleaned[i]) = raw[j]}) = 1

\* a raw partition of a valid row and a row with amount 0: one cleaned row
C24_Witness ==
    /\ lastRun.stage = "transformer"
    /\ \E d \in PartitionDates :
          /\ Len(disk[RawPath(d)].rows) = 2
          /\ \E j \in 1..2 : disk[RawPath(d)].rows[j].amount = 0
          /\ disk[CleanedPath(d)].exists
          /\ Len(disk[CleanedPath(d)].rows) = 1

----------------------------------------------------------------------------
(* C30  Cleaned partitions have unique natural keys: whatever the raw      *)
(* partition holds, also two rows of one transaction_id that differ in     *)
(* another column, the cleaned partition has at most one row per           *)
(* transaction_id.                                                         *)
C30_CleanedKeysUnique ==
    \A f \in CleanedFiles : \A i, j \in DOMAIN f.rows :
        f.rows[i].transaction_id = f.rows[j].transaction_id => i = j

DimCustomerFiles == {disk[DimCustomerPath(d)] : d \in PartitionDates}

RecordsOf(f) == IF f.exists THEN {f.rows[i] : i \in 1..Len(f.rows)} ELSE {}

(* C25  Dimension builder determinism: the records the builder has        *)
(* written for one customer_key are the same record, whatever the day of   *)
(* the run that built them: any two dim_customer files agree on            *)
(* customer_id, signup_date and segment of every key they share.           *)
C25_BuilderDeterministic ==
    \A f \in DimCustomerFiles, g \in DimCustomerFiles :
        \A r \in RecordsOf(f), s \in RecordsOf(g) :
            r.customer_key = s.customer_key =>
                /\ r.customer_id = s.customer_id
                /\ r.signup_date = s.signup_date
                /\ r.segment = s.segment

\* the partition date of a path
DateOfPath(p) == p[1]

PathsTouched(run) ==
    {run.read[i] : i \in 1..Len(run.read)} \cup
    {run.wrote[i] : i \in 1..Len(run.wrote)}

(* C26  Per-stage date selection: a stage run with --date D reads and     *)
(* writes only files of the partition of D, and a stage run without       *)
(* --date only files of the partition of the day before the run.          *)
C26_StageUsesItsDate ==
    \A p \in PathsTouched(lastRun) :
        IF lastRun.arg # <<>>
        THEN DateOfPath(p) = lastRun.arg[1]
        ELSE DateOfPath(p) = Yesterday(lastRun.day)

EventsAt(e) == {i \in 1..Len(ing.events) : ing.events[i] = e}

(* C27  Generator retry loop: run_ingestion starts at most 3 attempts;    *)
(* it sleeps the fixed delay after a failed attempt that another attempt   *)
(* follows, and never otherwise; it returns at the first success, which    *)
(* ends the run; after the third failure it logs critical and re-raises    *)
(* the exception it caught; and when it has returned normally the raw file *)
(* of the date is one attempt's complete batch of RECORDS_PER_DAY rows.    *)
C27_GeneratorRetryLoop ==
    LET ev == ing.events
        n == Len(ev)
        csv == disk[RawPath(ing.date[1])]
    IN  /\ Cardinality(EventsAt("start")) <= 3
        /\ ing.attempt = Cardinality(EventsAt("error"))
        /\ \A i \in EventsAt("sleep") :
              /\ ev[i - 1] = "error"
              /\ Cardinality({j \in EventsAt("error") : j < i}) < 3
              /\ IF i < n THEN ev[i + 1] = "start"
                 ELSE ing.pc \in {"SLEEPING", "TRY"}
        /\ \A i \in EventsAt("error") :
              i < n /\ ev[i + 1] \in {"sleep", "critical"}
        /\ ing.slept = RETRY_DELAY_SECONDS * Cardinality(EventsAt("sleep"))
        /\ \A i \in EventsAt("success") : i = n /\ ing.pc = "RETURNED"
        /\ ing.pc = "RETURNED" => n > 0 /\ ev[n] = "success"
        /\ \A i \in EventsAt("critical") :
              /\ i = n
              /\ Cardinality(EventsAt("error")) = 3
              /\ ing.pc = "RAISED"
        /\ ing.pc = "RAISED" =>
              /\ n > 0 /\ ev[n] = "critical"
              /\ ing.raised = ing.error
              /\ ing.raised \in IngestSteps
        /\ ing.pc # "RAISED" => ing.raised = "none"
        /\ ing.pc = "RETURNED" =>
              /\ csv.exists
              /\ Len(csv.rows) = RECORDS_PER_DAY
              /\ \E k \in 0..2 :
                    csv.rows = generate_synthetic_transactions(
                                    ing.date[1], RECORDS_PER_DAY, k)

\* returned at the third attempt, after two failures and two sleeps
C27_Witness ==
    /\ ing.pc = "RETURNED"
    /\ ing.attempt = 2
    /\ Cardinality(EventsAt("sleep")) = 2
    /\ Len(disk[RawPath(ing.date[1])].rows) = RECORDS_PER_DAY

====
